---- MODULE Spec2Model ----
(***************************************************************************)
(* Model of knodle's majority-vote label aggregation                       *)
(* (knodle/trainer/utils/denoise.py) and of the CrossWeigh sample-weighted *)
(* training loop (knodle/trainer/crossweigh_weighing/crossweigh.py).       *)
(*                                                                         *)
(* Three specifications share the variables:                               *)
(*   SpecVote  - the two aggregation functions run on the same inputs      *)
(*   SpecLoss  - CrossWeigh._get_loss_with_sample_weights on one batch     *)
(*   SpecTrain - CrossWeigh.train with CrossWeigh._evaluate                *)
(*                                                                         *)
(* Arrays are records [shape, a] indexed from 1; a numpy index i >= 0 is   *)
(* position i + 1.  Quotients are exact fractions <<num, den>> in lowest   *)
(* terms; <<0, 0>> stands for NaN and <<1, 0>> for inf, the two values a   *)
(* numpy division by zero yields.  Rounding of IEEE doubles is not         *)
(* modelled.                                                               *)
(***************************************************************************)
EXTENDS Integers, Sequences, FiniteSets, TLC

\* ------------------------------------------------------------------ bounds
MaxN == 3
MaxR == 2
MaxC == 2
MaxZCells == 6
MaxTCells == 4
MaxBatchLen == 2
MaxLoss == 2
MaxSampleWeight == 2
MaxClassWeight == 2
NumSamples == 3
BatchSize == 2
MaxEpochs == 2
DevBatches == 2

\* F.one_hot(..., num_classes=2): the trainer is written for two classes.
NumClasses == 2
Classes == 0..(NumClasses - 1)

VARIABLES
    \* denoise.py: arguments and locals of the two functions
    rule_matches_z, mapping_rules_labels_t, no_match_class,
    pc, rule_counts, rule_counts_probs, ret,
    \* crossweigh.py: trainer_config.class_weights
    class_weights,
    \* crossweigh.py: arguments and result of _get_loss_with_sample_weights
    lpc, output_nll, labels, weights, loss,
    \* crossweigh.py: train() and _evaluate()
    tpc, epochs, epoch_iter, curr_epoch, order, batch, train_labels,
    mode, grads, applied, params, opt_steps, running, loss_denominator,
    dev_i, dev_running, eval_passes,
    train_losses, dev_losses, train_accs, dev_accs, plotted,
    \* history of the run: the label composition and the denominator of
    \* every weighted loss computed so far
    seen

voteVars == <<rule_matches_z, mapping_rules_labels_t, no_match_class,
              pc, rule_counts, rule_counts_probs, ret>>

lossVars == <<lpc, output_nll, labels, weights, loss>>

trainVars == <<tpc, epochs, epoch_iter, curr_epoch, order, batch, train_labels,
               mode, grads, applied, params, opt_steps, running,
               loss_denominator, dev_i, dev_running, eval_passes,
               train_losses, dev_losses, train_accs, dev_accs, plotted, seen>>

vars == <<voteVars, class_weights, lossVars, trainVars>>

\* ------------------------------------------------------------- fractions
RECURSIVE GCD(_, _)
GCD(a, b) == IF b = 0 THEN a ELSE GCD(b, a % b)

NaN == <<0, 0>>
Inf == <<1, 0>>
Zero == <<0, 1>>
One == <<1, 1>>
Half == <<1, 2>>

Frac(n, d) == LET g == GCD(n, d) IN <<n \div g, d \div g>>

\* numpy true division of a non-negative count by a non-negative count:
\* 0/0 is nan, x/0 is inf.
TrueDivide(x, s) ==
    IF s = 0 THEN (IF x = 0 THEN NaN ELSE Inf) ELSE Frac(x, s)

\* Sums of quotients, used to state the properties only.
FAdd(p, q) ==
    IF p = NaN \/ q = NaN THEN NaN
    ELSE IF p[2] = 0 \/ q[2] = 0 THEN Inf
    ELSE Frac(p[1] * q[2] + q[1] * p[2], p[2] * q[2])

RECURSIVE FSum(_)
FSum(s) == IF s = <<>> THEN Zero ELSE FAdd(Head(s), FSum(Tail(s)))

RECURSIVE ISum(_)
ISum(s) == IF s = <<>> THEN 0 ELSE Head(s) + ISum(Tail(s))

\* ---------------------------------------------------------------- arrays
Unset == [shape |-> <<-1, -1>>, a |-> <<>>]

Mat(n, m, f) == [shape |-> <<n, m>>, a |-> f]

BinMat(n, m) == {Mat(n, m, f) : f \in [1..n -> [1..m -> {0, 1}]]}

\* numpy index normalisation: a negative index counts from the end.
ColumnOf(index, ncols) == IF index < 0 THEN ncols + index + 1 ELSE index + 1

ValidIndices(ncols) == (-ncols)..(ncols - 1)

\* ------------------------------------------------------------ denoise.py
Fns == {"get_majority_vote_probs", "get_majority_vote_probs_with_no_rel"}
FnA == "get_majority_vote_probs"
FnB == "get_majority_vote_probs_with_no_rel"

DimensionsMismatchWrongAxis(Z, T) == Z.shape[2] > T.shape[1]
DimensionsMismatch(Z, T) == Z.shape[2] # T.shape[1]

MatMulAny(Z, T) ==
    Mat(Z.shape[1], T.shape[2],
        [i \in 1..Z.shape[1] |-> [j \in 1..T.shape[2] |->
            IF \E k \in 1..Z.shape[2] : Z.a[i][k] * T.a[k][j] # 0
            THEN 1 ELSE 0]])
MatMul(Z, T) ==
    Mat(Z.shape[1], T.shape[2],
        [i \in 1..Z.shape[1] |-> [j \in 1..T.shape[2] |->
            ISum([k \in 1..Z.shape[2] |-> Z.a[i][k] * T.a[k][j]])]])

RowAny(row) == \E j \in DOMAIN row : row[j] # 0

\* rule_counts[~rule_counts.any(axis=1), no_match_class] = 1
AssignNoMatchFirstColumn(counts, index) ==
    Mat(counts.shape[1], counts.shape[2],
        [i \in 1..counts.shape[1] |->
            IF RowAny(counts.a[i]) THEN counts.a[i]
            ELSE [counts.a[i] EXCEPT ![1] = 1]])
AssignNoMatch(counts, index) ==
    Mat(counts.shape[1], counts.shape[2],
        [i \in 1..counts.shape[1] |->
            IF RowAny(counts.a[i]) THEN counts.a[i]
            ELSE [counts.a[i] EXCEPT ![ColumnOf(index, counts.shape[2])] = 1]])

\* rule_counts / rule_counts.sum(axis=1).reshape(-1, 1)
DivideByRowSum(counts) ==
    Mat(counts.shape[1], counts.shape[2],
        [i \in 1..counts.shape[1] |-> [j \in 1..counts.shape[2] |->
            TrueDivide(counts.a[i][j], ISum(counts.a[i]))]])

\* rule_counts_probs[np.isnan(rule_counts_probs)] = 0
NanKept(probs) == probs
NanToZero(probs) ==
    Mat(probs.shape[1], probs.shape[2],
        [i \in 1..probs.shape[1] |-> [j \in 1..probs.shape[2] |->
            IF probs.a[i][j] = NaN THEN Zero ELSE probs.a[i][j]]])

IdleVote ==
    /\ rule_matches_z = Unset
    /\ mapping_rules_labels_t = Unset
    /\ no_match_class = 0
    /\ pc = [f \in Fns |-> "idle"]
    /\ rule_counts = [f \in Fns |-> Unset]
    /\ rule_counts_probs = [f \in Fns |-> Unset]
    /\ ret = [f \in Fns |-> Unset]

IdleLoss ==
    /\ lpc = "idle"
    /\ output_nll = <<>>
    /\ labels = <<>>
    /\ weights = <<>>
    /\ loss = NaN

IdleTrain ==
    /\ tpc = "idle"
    /\ epochs = 0
    /\ epoch_iter = 0
    /\ curr_epoch = 0
    /\ order = <<>>
    /\ batch = 0
    /\ train_labels = <<>>
    /\ mode = "train"
    /\ grads = {}
    /\ applied = {}
    /\ params = 0
    /\ opt_steps = 0
    /\ running = 0
    /\ loss_denominator = 0
    /\ dev_i = 0
    /\ dev_running = 0
    /\ eval_passes = 0
    /\ train_losses = <<>>
    /\ dev_losses = <<>>
    /\ train_accs = <<>>
    /\ dev_accs = <<>>
    /\ plotted = <<>>
    /\ seen = {}

InitVote ==
    /\ rule_matches_z \in UNION {BinMat(n, r) :
           <<n, r>> \in {q \in (0..MaxN) \X (0..MaxR) : q[1] * q[2] <= MaxZCells}}
    /\ mapping_rules_labels_t \in UNION {BinMat(r, c) :
           <<r, c>> \in {q \in (0..MaxR) \X (1..MaxC) : q[1] * q[2] <= MaxTCells}}
    /\ no_match_class \in ValidIndices(mapping_rules_labels_t.shape[2])
    /\ pc = [f \in Fns |-> "check"]
    /\ rule_counts = [f \in Fns |-> Unset]
    /\ rule_counts_probs = [f \in Fns |-> Unset]
    /\ ret = [f \in Fns |-> Unset]
    /\ class_weights = [c \in Classes |-> 1]
    /\ IdleLoss
    /\ IdleTrain

VoteInputsUnchanged ==
    UNCHANGED <<rule_matches_z, mapping_rules_labels_t, no_match_class,
                class_weights, lossVars, trainVars>>

\* denoise.py 19-20 and 44-45
CheckDimensions(f) ==
    /\ pc[f] = "check"
    /\ pc' = [pc EXCEPT ![f] =
           IF DimensionsMismatch(rule_matches_z, mapping_rules_labels_t)
           THEN "ValueError" ELSE "matmul"]
    /\ UNCHANGED <<rule_counts, rule_counts_probs, ret>>
    /\ VoteInputsUnchanged

\* denoise.py 22 and 47
CountVotes(f) ==
    /\ pc[f] = "matmul"
    /\ rule_counts' = [rule_counts EXCEPT ![f] =
           MatMul(rule_matches_z, mapping_rules_labels_t)]
    /\ pc' = [pc EXCEPT ![f] = IF f = FnB THEN "no_match" ELSE "divide"]
    /\ UNCHANGED <<rule_counts_probs, ret>>
    /\ VoteInputsUnchanged

\* denoise.py 48
InjectNoMatch ==
    /\ pc[FnB] = "no_match"
    /\ rule_counts' = [rule_counts EXCEPT ![FnB] =
           AssignNoMatch(rule_counts[FnB], no_match_class)]
    /\ pc' = [pc EXCEPT ![FnB] = "divide"]
    /\ UNCHANGED <<rule_counts_probs, ret>>
    /\ VoteInputsUnchanged

\* denoise.py 23 and 49
Normalize(f) ==
    /\ pc[f] = "divide"
    /\ rule_counts_probs' = [rule_counts_probs EXCEPT ![f] =
           DivideByRowSum(rule_counts[f])]
    /\ pc' = [pc EXCEPT ![f] = "nan"]
    /\ UNCHANGED <<rule_counts, ret>>
    /\ VoteInputsUnchanged

\* denoise.py 25 and 51
RewriteNan(f) ==
    /\ pc[f] = "nan"
    /\ rule_counts_probs' = [rule_counts_probs EXCEPT ![f] =
           NanToZero(rule_counts_probs[f])]
    /\ pc' = [pc EXCEPT ![f] = "return"]
    /\ UNCHANGED <<rule_counts, ret>>
    /\ VoteInputsUnchanged

\* denoise.py 26 and 52
ReturnProbs(f) ==
    /\ pc[f] = "return"
    /\ ret' = [ret EXCEPT ![f] = rule_counts_probs[f]]
    /\ pc' = [pc EXCEPT ![f] = "done"]
    /\ UNCHANGED <<rule_counts, rule_counts_probs>>
    /\ VoteInputsUnchanged

NextVote ==
    \/ \E f \in Fns : CheckDimensions(f)
    \/ \E f \in Fns : CountVotes(f)
    \/ InjectNoMatch
    \/ \E f \in Fns : Normalize(f)
    \/ \E f \in Fns : RewriteNan(f)
    \/ \E f \in Fns : ReturnProbs(f)

SpecVote == InitVote /\ [][NextVote]_vars

\* ------------------------------------------------- claims on denoise.py
Done(f) == pc[f] = "done"
BothDone == Done(FnA) /\ Done(FnB)
Samples == 1..rule_matches_z.shape[1]
Rules == 1..rule_matches_z.shape[2]
Labels == 1..mapping_rules_labels_t.shape[2]
Fired(n) == \E r \in Rules : rule_matches_z.a[n][r] = 1
VotesFor(n, c) ==
    Cardinality({r \in Rules : rule_matches_z.a[n][r] = 1
                                /\ mapping_rules_labels_t.a[r][c] = 1})
TotalVotes(n) ==
    Cardinality({q \in Rules \X Labels : rule_matches_z.a[n][q[1]] = 1
                                /\ mapping_rules_labels_t.a[q[1]][q[2]] = 1})
AllZeroRow(row) == \A j \in DOMAIN row : row[j] = Zero
OneHotRow(row, col) ==
    \A j \in DOMAIN row : row[j] = (IF j = col THEN One ELSE Zero)
ReservedColumn == ColumnOf(no_match_class, mapping_rules_labels_t.shape[2])

ExampleZ == Mat(3, 2, <<(<<1, 0>>), (<<0, 1>>), (<<0, 0>>)>>)
ExampleT == Mat(2, 2, <<(<<1, 0>>), (<<0, 1>>)>>)
TieZ == Mat(1, 2, <<(<<1, 1>>)>>)

\* C1: once get_majority_vote_probs has returned, every row of its result is
\* all-zero or sums to 1; once get_majority_vote_probs_with_no_rel has
\* returned, every row of its result sums to 1, for every valid reserved
\* class index (negative numpy indices included).
C1_RowSums ==
    /\ Done(FnA) =>
          /\ ret[FnA].shape = <<rule_matches_z.shape[1], mapping_rules_labels_t.shape[2]>>
          /\ \A n \in Samples :
                AllZeroRow(ret[FnA].a[n]) \/ FSum(ret[FnA].a[n]) = One
    /\ Done(FnB) =>
          /\ ret[FnB].shape = <<rule_matches_z.shape[1], mapping_rules_labels_t.shape[2]>>
          /\ \A n \in Samples : FSum(ret[FnB].a[n]) = One

C1_Witness ==
    /\ BothDone
    /\ \E n \in Samples : AllZeroRow(ret[FnA].a[n])
    /\ \E n \in Samples : Half \in {ret[FnA].a[n][j] : j \in Labels}
                           /\ FSum(ret[FnA].a[n]) = One
    /\ \E n \in Samples : FSum(ret[FnB].a[n]) = One /\ ~Fired(n)

\* C2: for a sample on which no rule fired, get_majority_vote_probs returns an
\* all-zero row (no NaN) and get_majority_vote_probs_with_no_rel returns the
\* one-hot row of the reserved class; on Z=[[1,0],[0,1],[0,0]],
\* T=[[1,0],[0,1]] the results are [[1,0],[0,1],[0,0]] and, with reserved
\* class 1, [[1,0],[0,1],[0,1]].
C2_NoRuleFired ==
    /\ Done(FnA) => \A n \in Samples : ~Fired(n) => AllZeroRow(ret[FnA].a[n])
    /\ Done(FnB) => \A n \in Samples :
          ~Fired(n) => OneHotRow(ret[FnB].a[n], ReservedColumn)
    /\ (rule_matches_z = ExampleZ /\ mapping_rules_labels_t = ExampleT) =>
          /\ Done(FnA) =>
                ret[FnA].a = <<(<<One, Zero>>), (<<Zero, One>>), (<<Zero, Zero>>)>>
          /\ (Done(FnB) /\ no_match_class = 1) =>
                ret[FnB].a = <<(<<One, Zero>>), (<<Zero, One>>), (<<Zero, One>>)>>

C2_Witness ==
    /\ BothDone
    /\ rule_matches_z = ExampleZ
    /\ mapping_rules_labels_t = ExampleT
    /\ no_match_class = 1
    /\ ret[FnB].a[3] = <<Zero, One>>
    /\ ret[FnA].a[3] = <<Zero, Zero>>

\* C3: for every sample on which at least one rule fired, the two functions
\* return the same row.
C3_SameRowWhenRuleFired ==
    BothDone => \A n \in Samples : Fired(n) => ret[FnA].a[n] = ret[FnB].a[n]

\* C4: when the column count of Z differs from the row count of T, both
\* functions end in the ValueError with no vote count, no quotient and no
\* result computed; when the counts agree neither raises it.
C4_DimensionError ==
    \A f \in Fns :
        /\ pc[f] = "ValueError" =>
              rule_matches_z.shape[2] # mapping_rules_labels_t.shape[1]
        /\ rule_matches_z.shape[2] # mapping_rules_labels_t.shape[1] =>
              /\ pc[f] \in {"check", "ValueError"}
              /\ rule_counts[f] = Unset
              /\ rule_counts_probs[f] = Unset
              /\ ret[f] = Unset

C4_Witness ==
    /\ pc[FnA] = "ValueError"
    /\ pc[FnB] = "ValueError"
    /\ rule_matches_z.shape[1] > 0
    /\ rule_counts = [f \in Fns |-> Unset]

\* C5: for every sample with at least one vote, entry (n,c) of
\* get_majority_vote_probs is the number of rules that fired on n and vote
\* for c, divided by the number of votes on n; classes with equal counts get
\* equal probability, and Z=[[1,1]], T=[[1,0],[0,1]] gives [[1/2,1/2]].
C5_VoteShare ==
    Done(FnA) =>
        /\ \A n \in Samples : TotalVotes(n) > 0 =>
              /\ \A c \in Labels :
                    ret[FnA].a[n][c] = Frac(VotesFor(n, c), TotalVotes(n))
              /\ \A c, d \in Labels :
                    VotesFor(n, c) = VotesFor(n, d) =>
                        ret[FnA].a[n][c] = ret[FnA].a[n][d]
        /\ (rule_matches_z = TieZ /\ mapping_rules_labels_t = ExampleT) =>
              ret[FnA].a = <<(<<Half, Half>>)>>

C5_Witness ==
    /\ Done(FnA)
    /\ rule_matches_z = TieZ
    /\ mapping_rules_labels_t = ExampleT
    /\ ret[FnA].a[1] = <<Half, Half>>

\* ---------------------------- crossweigh.py: _get_loss_with_sample_weights
\* The criterion is configured by train() with weight = class_weights and
\* reduction = 'none': it returns, per sample, the class weight of the
\* sample's label times the sample's unweighted loss.  The unweighted loss
\* of a sample depends on the model's predictions and is an input here.
Criterion(nll, lbls, cw) == [i \in 1..Len(nll) |-> cw[lbls[i]] * nll[i]]

\* self.trainer_config.class_weights[labels].sum()
LossDenominatorAllClasses(lbls, cw) == ISum([i \in 1..NumClasses |-> cw[i - 1]])
LossDenominatorFirstLabel(lbls, cw) ==
    IF lbls = <<>> THEN 0 ELSE cw[lbls[1]] * Len(lbls)
LossDenominator(lbls, cw) == ISum([i \in 1..Len(lbls) |-> cw[lbls[i]]])

\* (criterion(output, labels) * weights).sum() / class_weights[labels].sum()
GetLossWithSampleWeights(nll, lbls, wts, cw) ==
    TrueDivide(ISum([i \in 1..Len(nll) |-> Criterion(nll, lbls, cw)[i] * wts[i]]),
               LossDenominator(lbls, cw))

InitLoss ==
    /\ IdleVote
    /\ IdleTrain
    /\ class_weights \in [Classes -> 1..MaxClassWeight]
    /\ \E n \in 1..MaxBatchLen :
          /\ output_nll \in [1..n -> 0..MaxLoss]
          /\ labels \in [1..n -> Classes]
          /\ weights \in [1..n -> 0..MaxSampleWeight]
    /\ lpc = "call"
    /\ loss = NaN

\* crossweigh.py 171-173
CallGetLoss ==
    /\ lpc = "call"
    /\ loss' = GetLossWithSampleWeights(output_nll, labels, weights, class_weights)
    /\ lpc' = "returned"
    /\ UNCHANGED <<output_nll, labels, weights, class_weights, voteVars, trainVars>>

NextLoss == CallGetLoss

SpecLoss == InitLoss /\ [][NextLoss]_vars

\* C6: for a non-empty batch whose sample weights are all 1, with every class
\* weight 1, the returned loss is the sum of the per-sample losses divided by
\* the batch size.
C6_UnitWeightsGiveMean ==
    (/\ lpc = "returned"
     /\ \A i \in DOMAIN weights : weights[i] = 1
     /\ \A c \in Classes : class_weights[c] = 1)
    => loss = Frac(ISum(output_nll), Len(output_nll))

C6_Witness ==
    /\ lpc = "returned"
    /\ Len(output_nll) = 2
    /\ labels = <<0, 1>>
    /\ output_nll = <<1, 2>>
    /\ \A i \in DOMAIN weights : weights[i] = 1
    /\ \A c \in Classes : class_weights[c] = 1
    /\ loss = <<3, 2>>

\* --------------------------------------- crossweigh.py: train, _evaluate
\* The loaders come from _make_dataloader of the base trainer: each pass
\* over train_loader yields the samples once, in a shuffled order, in
\* consecutive batches of at most BatchSize samples.
NumBatches == (NumSamples + BatchSize - 1) \div BatchSize

BatchOf(ord, b) ==
    SubSeq(ord, b * BatchSize + 1,
           IF (b + 1) * BatchSize < Len(ord) THEN (b + 1) * BatchSize ELSE Len(ord))

ClassCounts(lbls) ==
    [c \in Classes |-> Cardinality({i \in DOMAIN lbls : lbls[i] = c})]

\* for curr_epoch in range(epochs)
RangeHasNextInclusive(i, n) == i <= n
RangeHasNext(i, n) == i < n

\* self.model.zero_grad()
ZeroGradSkipped(g) == g
ZeroGrad(g) == {}

BatchPcs == {"zero_grad", "forward", "loss", "backward", "step", "accumulate"}
EvalPcs == {"evaluate", "dev_batch", "dev_return"}

InitTrain ==
    /\ IdleVote
    /\ IdleLoss
    /\ class_weights \in [Classes -> 1..MaxClassWeight]
    /\ labels = <<>>
    /\ tpc = "model_train"
    /\ epochs \in 0..MaxEpochs
    /\ epoch_iter = 0
    /\ curr_epoch = 0
    /\ order = <<>>
    /\ batch = 0
    /\ train_labels \in [1..NumSamples -> Classes]
    /\ mode \in {"train", "eval"}
    /\ grads = {}
    /\ applied = {}
    /\ params = 0
    /\ opt_steps = 0
    /\ running = 0
    /\ loss_denominator = 0
    /\ dev_i = 0
    /\ dev_running = 0
    /\ eval_passes = 0
    /\ train_losses = <<>>
    /\ dev_losses = <<>>
    /\ train_accs = <<>>
    /\ dev_accs = <<>>
    /\ plotted = <<>>
    /\ seen = {}

TrainFrame == UNCHANGED <<voteVars, class_weights, lpc, output_nll, weights,
                          loss, epochs, train_labels>>

\* crossweigh.py 81-82
ModelTrain ==
    /\ tpc = "model_train"
    /\ mode' = "train"
    /\ train_losses' = <<>>
    /\ dev_losses' = <<>>
    /\ train_accs' = <<>>
    /\ dev_accs' = <<>>
    /\ tpc' = "epoch_head"
    /\ UNCHANGED <<epoch_iter, curr_epoch, order, batch, labels, grads, applied,
                   params, opt_steps, running, loss_denominator, dev_i,
                   dev_running, eval_passes, plotted, seen>>
    /\ TrainFrame

\* crossweigh.py 83-88: the next epoch starts a new pass over train_loader
NextEpoch ==
    /\ tpc = "epoch_head"
    /\ RangeHasNext(epoch_iter, epochs)
    /\ curr_epoch' = epoch_iter
    /\ epoch_iter' = epoch_iter + 1
    /\ running' = 0
    /\ order' \in Permutations(1..NumSamples)
    /\ batch' = 0
    /\ tpc' = "batch_head"
    /\ UNCHANGED <<labels, mode, grads, applied, params, opt_steps,
                   loss_denominator, dev_i, dev_running, eval_passes,
                   train_losses, dev_losses, train_accs, dev_accs, plotted, seen>>
    /\ TrainFrame

\* crossweigh.py 83: range(epochs) is exhausted
EndOfEpochs ==
    /\ tpc = "epoch_head"
    /\ ~RangeHasNext(epoch_iter, epochs)
    /\ tpc' = "plot"
    /\ UNCHANGED <<epoch_iter, curr_epoch, order, batch, labels, mode, grads,
                   applied, params, opt_steps, running, loss_denominator, dev_i,
                   dev_running, eval_passes, train_losses, dev_losses,
                   train_accs, dev_accs, plotted, seen>>
    /\ TrainFrame

\* crossweigh.py 88: the loader yields the next batch
NextBatch ==
    /\ tpc = "batch_head"
    /\ batch < NumBatches
    /\ labels' = [i \in 1..Len(BatchOf(order, batch)) |->
                     train_labels[BatchOf(order, batch)[i]]]
    /\ tpc' = "zero_grad"
    /\ UNCHANGED <<epoch_iter, curr_epoch, order, batch, mode, grads, applied,
                   params, opt_steps, running, loss_denominator, dev_i,
                   dev_running, eval_passes, train_losses, dev_losses,
                   train_accs, dev_accs, plotted, seen>>
    /\ TrainFrame

\* crossweigh.py 88: the loader is exhausted
EndOfBatches ==
    /\ tpc = "batch_head"
    /\ batch >= NumBatches
    /\ tpc' = "epoch_stats"
    /\ UNCHANGED <<epoch_iter, curr_epoch, order, batch, labels, mode, grads,
                   applied, params, opt_steps, running, loss_denominator, dev_i,
                   dev_running, eval_passes, train_losses, dev_losses,
                   train_accs, dev_accs, plotted, seen>>
    /\ TrainFrame

\* crossweigh.py 89
ClearGradients ==
    /\ tpc = "zero_grad"
    /\ grads' = ZeroGrad(grads)
    /\ tpc' = "forward"
    /\ UNCHANGED <<epoch_iter, curr_epoch, order, batch, labels, mode, applied,
                   params, opt_steps, running, loss_denominator, dev_i,
                   dev_running, eval_passes, train_losses, dev_losses,
                   train_accs, dev_accs, plotted, seen>>
    /\ TrainFrame

\* crossweigh.py 90: predictions are the model's, opaque to the loop
Forward ==
    /\ tpc = "forward"
    /\ tpc' = "loss"
    /\ UNCHANGED <<epoch_iter, curr_epoch, order, batch, labels, mode, grads,
                   applied, params, opt_steps, running, loss_denominator, dev_i,
                   dev_running, eval_passes, train_losses, dev_losses,
                   train_accs, dev_accs, plotted, seen>>
    /\ TrainFrame

\* crossweigh.py 91: the numerator of the loss depends on the predictions;
\* the denominator depends on the batch's labels and the class weights only
WeightedLoss ==
    /\ tpc = "loss"
    /\ loss_denominator' = LossDenominator(labels, class_weights)
    /\ seen' = seen \cup {<<ClassCounts(labels), loss_denominator'>>}
    /\ tpc' = "backward"
    /\ UNCHANGED <<epoch_iter, curr_epoch, order, batch, labels, mode, grads,
                   applied, params, opt_steps, running, dev_i, dev_running,
                   eval_passes, train_losses, dev_losses, train_accs, dev_accs,
                   plotted>>
    /\ TrainFrame

\* crossweigh.py 92: backward() adds this batch's gradient to the stored one
Backward ==
    /\ tpc = "backward"
    /\ grads' = grads \cup {<<curr_epoch, batch>>}
    /\ tpc' = "step"
    /\ UNCHANGED <<epoch_iter, curr_epoch, order, batch, labels, mode, applied,
                   params, opt_steps, running, loss_denominator, dev_i,
                   dev_running, eval_passes, train_losses, dev_losses,
                   train_accs, dev_accs, plotted, seen>>
    /\ TrainFrame

\* crossweigh.py 93
OptimizerStep ==
    /\ tpc = "step"
    /\ applied' = grads
    /\ params' = params + 1
    /\ opt_steps' = opt_steps + 1
    /\ tpc' = "accumulate"
    /\ UNCHANGED <<epoch_iter, curr_epoch, order, batch, labels, mode, grads,
                   running, loss_denominator, dev_i, dev_running, eval_passes,
                   train_losses, dev_losses, train_accs, dev_accs, plotted, seen>>
    /\ TrainFrame

\* crossweigh.py 94-98
Accumulate ==
    /\ tpc = "accumulate"
    /\ running' = running + 1
    /\ batch' = batch + 1
    /\ tpc' = "batch_head"
    /\ UNCHANGED <<epoch_iter, curr_epoch, order, labels, mode, grads, applied,
                   params, opt_steps, loss_denominator, dev_i, dev_running,
                   eval_passes, train_losses, dev_losses, train_accs, dev_accs,
                   plotted, seen>>
    /\ TrainFrame

\* crossweigh.py 100-106: an entry records the epoch and the number of
\* batch values averaged into it
EpochStats ==
    /\ tpc = "epoch_stats"
    /\ train_losses' = Append(train_losses, <<curr_epoch, running>>)
    /\ train_accs' = Append(train_accs, <<curr_epoch, running>>)
    /\ tpc' = "evaluate"
    /\ UNCHANGED <<epoch_iter, curr_epoch, order, batch, labels, mode, grads,
                   applied, params, opt_steps, running, loss_denominator, dev_i,
                   dev_running, eval_passes, dev_losses, dev_accs, plotted, seen>>
    /\ TrainFrame

\* crossweigh.py 108, 120-123
EvaluateEnter ==
    /\ tpc = "evaluate"
    /\ mode' = "eval"
    /\ dev_i' = 0
    /\ dev_running' = 0
    /\ eval_passes' = eval_passes + 1
    /\ tpc' = "dev_batch"
    /\ UNCHANGED <<epoch_iter, curr_epoch, order, batch, labels, grads, applied,
                   params, opt_steps, running, loss_denominator, train_losses,
                   dev_losses, train_accs, dev_accs, plotted, seen>>
    /\ TrainFrame

\* crossweigh.py 124-133, under torch.no_grad()
DevBatch ==
    /\ tpc = "dev_batch"
    /\ dev_i < DevBatches
    /\ dev_i' = dev_i + 1
    /\ dev_running' = dev_running + 1
    /\ UNCHANGED <<tpc, epoch_iter, curr_epoch, order, batch, labels, mode, grads,
                   applied, params, opt_steps, running, loss_denominator,
                   eval_passes, train_losses, dev_losses, train_accs, dev_accs,
                   plotted, seen>>
    /\ TrainFrame

\* crossweigh.py 134, 108-113
EvaluateReturn ==
    /\ tpc = "dev_batch"
    /\ dev_i >= DevBatches
    /\ dev_losses' = Append(dev_losses, <<curr_epoch, dev_running>>)
    /\ dev_accs' = Append(dev_accs, <<curr_epoch, dev_running>>)
    /\ tpc' = "epoch_head"
    /\ UNCHANGED <<epoch_iter, curr_epoch, order, batch, labels, mode, grads,
                   applied, params, opt_steps, running, loss_denominator, dev_i,
                   dev_running, eval_passes, train_losses, train_accs, plotted,
                   seen>>
    /\ TrainFrame

\* crossweigh.py 115: the plot receives the four series
MakePlot ==
    /\ tpc = "plot"
    /\ plotted' = Append(plotted, <<Len(train_losses), Len(dev_losses),
                                    Len(train_accs), Len(dev_accs)>>)
    /\ tpc' = "done"
    /\ UNCHANGED <<epoch_iter, curr_epoch, order, batch, labels, mode, grads,
                   applied, params, opt_steps, running, loss_denominator, dev_i,
                   dev_running, eval_passes, train_losses, dev_losses,
                   train_accs, dev_accs, seen>>
    /\ TrainFrame

NextTrain ==
    \/ ModelTrain
    \/ NextEpoch
    \/ EndOfEpochs
    \/ NextBatch
    \/ EndOfBatches
    \/ ClearGradients
    \/ Forward
    \/ WeightedLoss
    \/ Backward
    \/ OptimizerStep
    \/ Accumulate
    \/ EpochStats
    \/ EvaluateEnter
    \/ DevBatch
    \/ EvaluateReturn
    \/ MakePlot

SpecTrain == InitTrain /\ [][NextTrain]_vars

\* ----------------------------------------------- claims on crossweigh.py
\* C7: whenever train() processes a training batch, in any epoch, the model
\* is in training mode.
C7_TrainingModeInEveryBatch == tpc \in BatchPcs => mode = "train"

\* C8: epochs run one after the other: all training batches of an epoch,
\* then exactly one full evaluation pass, then the next epoch; after the last
\* epoch the plot is made exactly once, and each of the four series then has
\* exactly `epochs` entries.
C8_SequentialEpochs ==
    /\ Len(train_losses) = Len(train_accs)
    /\ Len(dev_losses) = Len(dev_accs)
    /\ \A i \in DOMAIN train_losses : train_losses[i] = <<i - 1, NumBatches>>
    /\ \A i \in DOMAIN dev_losses : dev_losses[i] = <<i - 1, DevBatches>>
    /\ tpc \in BatchPcs \cup {"batch_head", "epoch_stats"} =>
          /\ Len(train_losses) = curr_epoch
          /\ Len(dev_losses) = curr_epoch
          /\ eval_passes = curr_epoch
    /\ tpc \in {"evaluate", "dev_batch"} =>
          /\ Len(train_losses) = curr_epoch + 1
          /\ Len(dev_losses) = curr_epoch
          /\ running = NumBatches
    /\ eval_passes = Len(dev_losses) + (IF tpc = "dev_batch" THEN 1 ELSE 0)
    /\ Len(plotted) = (IF tpc = "done" THEN 1 ELSE 0)
    /\ tpc = "done" =>
          /\ plotted = <<(<<epochs, epochs, epochs, epochs>>)>>
          /\ Len(train_losses) = epochs
          /\ Len(dev_losses) = epochs
          /\ Len(train_accs) = epochs
          /\ Len(dev_accs) = epochs
          /\ eval_passes = epochs

C8_Witness ==
    /\ tpc = "done"
    /\ epochs = MaxEpochs
    /\ Len(plotted) = 1
    /\ Len(dev_accs) = MaxEpochs
    /\ eval_passes = MaxEpochs

\* C9: parameters change only by the optimizer step, taken once per training
\* batch after that batch's gradient clearing, forward pass, loss and
\* backpropagation; the evaluator takes no step and leaves the parameters
\* alone; a run of `epochs` epochs over NumBatches batches takes exactly
\* epochs * NumBatches steps.
C9_OneStepPerBatch ==
    /\ params = opt_steps
    /\ opt_steps = (IF epoch_iter = 0 THEN 0
                    ELSE (epoch_iter - 1) * NumBatches + batch)
                   + (IF tpc = "accumulate" THEN 1 ELSE 0)
    /\ tpc = "step" => grads = {<<curr_epoch, batch>>}
    /\ tpc = "accumulate" => applied = {<<curr_epoch, batch>>}
    /\ tpc = "done" => opt_steps = epochs * NumBatches

C9_Witness ==
    /\ tpc = "done"
    /\ epochs = MaxEpochs
    /\ opt_steps = MaxEpochs * NumBatches
    /\ opt_steps >= 4
    /\ mode = "eval"

\* C10 as stated: every weighted loss of a run is normalised by the same
\* denominator.
C10_SameDenominatorEveryBatch == Cardinality({p[2] : p \in seen}) <= 1

\* C10 as amended: the denominator of a batch is the sum of the class weights
\* of its samples' labels, so two batches holding the same number of samples
\* of each class have the same denominator, in any order and any epoch.
C10_DenominatorByComposition ==
    /\ \A p \in seen :
          p[2] = ISum([i \in 1..NumClasses |-> class_weights[i - 1] * p[1][i - 1]])
    /\ \A p, q \in seen : p[1] = q[1] => p[2] = q[2]
    /\ tpc \in {"backward", "step", "accumulate"} =>
          <<ClassCounts(labels), loss_denominator>> \in seen

C10_Witness ==
    /\ tpc = "done"
    /\ epochs >= 2
    /\ Cardinality(seen) >= 2
    /\ \E p, q \in seen : p[2] # q[2] /\ ISum([i \in 1..NumClasses |-> p[1][i - 1]])
                                        = ISum([i \in 1..NumClasses |-> q[1][i - 1]])

====
